---- MODULE Spec2Model ----
(***************************************************************************)
(* libp2pclient.Client: the registry of per-peer message senders.          *)
(*                                                                         *)
(* client.go is modelled statement by statement: SendRequest, SendMessage, *)
(* peerSender and messageSenderForPeer, with the registry mutex            *)
(* (sendersLock) and the map peerSenders explicit.                         *)
(*                                                                         *)
(* peerMessageSender and its ctxMutex are not part of the available        *)
(* source; they are modelled from sections 4.1 and 4.2 of the design       *)
(* description:                                                            *)
(*   - prepOrInvalidate acquires the sender's cancellable lock, opens a    *)
(*     stream when none is present, and keeps the lock on success; on      *)
(*     failure the sender is marked invalid and the lock released;         *)
(*   - sendRequest / sendMessage run under the lock obtained by            *)
(*     prepOrInvalidate (they do not acquire it) and release it on every   *)
(*     return path;                                                        *)
(*   - Invalid is terminal: the handle of an invalid sender stays absent,  *)
(*     so preparing an invalid sender fails.                               *)
(*   - the optional liveness check of a present handle is not performed.   *)
(***************************************************************************)
EXTENDS Integers, FiniteSets, Sequences, TLC

\* Total number of SendRequest/SendMessage calls started in one behaviour.
MaxCalls == 3

Callers == {"c1", "c2"}
Peers == {"A", "B"}

\* A call creates at most one sender and opens at most one stream. A stream
\* handle is identified by its sender and its number among the streams
\* opened for that sender.
Senders == 1..MaxCalls
Handles == 1..MaxCalls

NoSender == 0
NoStream == 0
NoCaller == "none"
NoPeer == "none"
NoErr == "nil"

\* Protocol identifiers, and the value of "no protocol negotiated".
ProtocolIDs == {"v1", "v2"}
NoProtocol == "none"

\* Errors a call can return.
ErrCancelled == "context canceled"
ErrNegotiation == "negotiation failed"
ErrInvalidated == "message sender has been invalidated"
ErrWrite == "write failed"
ErrReadTimeout == "timed out reading response"
ErrDecode == "decode failed"

VARIABLES
    peerSenders,   \* Client.peerSenders: peer -> sender instance, NoSender when absent
    sendersLock,   \* Client.sendersLock: the caller holding it, or NoCaller
    nextId,        \* identity of the next peerMessageSender to be constructed
    peerID,        \* peerMessageSender.peerID
    ctxLock,       \* peerMessageSender.ctxLock: the caller holding it, or NoCaller
    stream,        \* peerMessageSender stream handle (the n-th stream opened
                   \* for this sender), NoStream when absent
    invalid,       \* peerMessageSender marked invalid
    opens,         \* number of streams the host has opened for the sender
    pc,            \* position of each caller
    peer,          \* argument p of the call in progress
    op,            \* "request" (SendRequest) or "message" (SendMessage)
    ms,            \* local variable ms / sender of the call in progress
    err,           \* error returned by prepOrInvalidate in the call in progress
    result,        \* what the caller's last call returned ("none" while in a call)
    calls,         \* calls started so far
    protocols,     \* Client.protocols: what the host is asked to negotiate
    options,       \* the protocol preference list given to NewClient as an
                   \* option (empty when no such option is given)
    accepts,       \* per peer: the protocols the remote peer accepts
    tried,         \* per sender: the protocols the host attempted in the last
                   \* negotiation for it, in order
    proto,         \* per sender: the protocol of the stream last opened
    \* history variables
    evicted,       \* senders that have been deleted from the registry
    last,          \* per sender: the failure the last send on it ended with
    found,         \* per caller: what peerSender returned, as it was then
    lastEv,        \* branch the failure handling took in the caller's current
                   \* or last call ("none" when it did not run)
    waitedOn       \* holder of the lock when the caller's lock wait was cancelled

vars == <<peerSenders, sendersLock, nextId, peerID, ctxLock, stream, invalid,
          opens, pc, peer, op, ms, err, result, calls,
          protocols, options, accepts, tried, proto,
          evicted, last, found, lastEv, waitedOn>>

\* What NewClient fixes and no call changes.
config == <<protocols, options, accepts>>

NoFound == [sender |-> NoSender, kind |-> "none", handle |-> NoStream]

\* Senders that reported a write failure or a read timeout.
ioFailed == {s \in Senders : last[s] \in {ErrWrite, ErrReadTimeout}}

\* The preference lists an option of NewClient can carry.
PreferenceLists == {<<>>, <<"v2", "v1">>, <<"v1", "v2">>}

\* The host's negotiation of a stream for the ordered list l with a peer that
\* accepts the protocols in acc: the protocols are attempted in order, the
\* first one the peer accepts wins.
AcceptedAt(l, acc) == {i \in 1..Len(l) : l[i] \in acc}

FirstAccepted(l, acc) ==
    CHOOSE i \in AcceptedAt(l, acc) : \A j \in AcceptedAt(l, acc) : i <= j

Attempts(l, acc) ==
    IF AcceptedAt(l, acc) = {} THEN l ELSE SubSeq(l, 1, FirstAccepted(l, acc))

Negotiated(l, acc) ==
    IF AcceptedAt(l, acc) = {} THEN NoProtocol ELSE l[FirstAccepted(l, acc)]

\* NewClient(ctx, h, protoID, options...): the options are applied to a
\* clientConfig; the Client is built with protocols = {protoID} and an empty
\* map of senders.
NewClient(protoID, opts) ==
    /\ options = opts
    /\ protocols = <<protoID>>
    /\ peerSenders = [p \in Peers |-> NoSender]
    /\ sendersLock = NoCaller
    /\ nextId = 1
    /\ peerID = [s \in Senders |-> NoPeer]
    /\ ctxLock = [s \in Senders |-> NoCaller]
    /\ stream = [s \in Senders |-> NoStream]
    /\ invalid = [s \in Senders |-> FALSE]
    /\ opens = [s \in Senders |-> 0]
    /\ pc = [c \in Callers |-> "idle"]
    /\ peer = [c \in Callers |-> NoPeer]
    /\ op = [c \in Callers |-> "none"]
    /\ ms = [c \in Callers |-> NoSender]
    /\ err = [c \in Callers |-> NoErr]
    /\ result = [c \in Callers |-> "none"]
    /\ calls = 0
    /\ tried = [s \in Senders |-> <<>>]
    /\ proto = [s \in Senders |-> NoProtocol]
    /\ evicted = {}
    /\ last = [s \in Senders |-> "none"]
    /\ found = [c \in Callers |-> NoFound]
    /\ lastEv = [c \in Callers |-> "none"]
    /\ waitedOn = [c \in Callers |-> NoCaller]

\* A client for the protocol "v1", no option, every peer speaking "v1".
Init ==
    /\ NewClient("v1", <<>>)
    /\ accepts = [p \in Peers |-> {"v1"}]

\* Any construction of the client, with peers accepting any set of protocols.
\* A preference list given as an option starts with protoID.
InitNegotiation ==
    /\ \E protoID \in ProtocolIDs, opts \in PreferenceLists :
          /\ IF opts = <<>> THEN TRUE ELSE opts[1] = protoID
          /\ NewClient(protoID, opts)
    /\ accepts \in [Peers -> SUBSET ProtocolIDs]

----------------------------------------------------------------------------
\* Entry and exit of a call.

\* SendRequest / SendMessage call messageSenderForPeer, which calls peerSender.
Begin(c, p, o) ==
    /\ pc[c] = "idle"
    /\ calls < MaxCalls
    /\ calls' = calls + 1
    /\ pc' = [pc EXCEPT ![c] = "ps_lock"]
    /\ peer' = [peer EXCEPT ![c] = p]
    /\ op' = [op EXCEPT ![c] = o]
    /\ result' = [result EXCEPT ![c] = "none"]
    /\ waitedOn' = [waitedOn EXCEPT ![c] = NoCaller]
    /\ lastEv' = [lastEv EXCEPT ![c] = "none"]
    /\ UNCHANGED <<peerSenders, sendersLock, nextId, peerID, ctxLock, stream,
                   invalid, opens, ms, err, evicted, last, found, config,
                   tried, proto>>

SendRequest(c, p) == Begin(c, p, "request")

SendMessage(c, p) == Begin(c, p, "message")

\* The call returns e to its caller; the locals of the call are gone.
Return(c, e) ==
    /\ pc' = [pc EXCEPT ![c] = "idle"]
    /\ result' = [result EXCEPT ![c] = e]
    /\ peer' = [peer EXCEPT ![c] = NoPeer]
    /\ op' = [op EXCEPT ![c] = "none"]
    /\ ms' = [ms EXCEPT ![c] = NoSender]
    /\ err' = [err EXCEPT ![c] = NoErr]
    /\ found' = [found EXCEPT ![c] = NoFound]
    /\ UNCHANGED waitedOn

----------------------------------------------------------------------------
\* Client.peerSender

\* c.sendersLock.Lock()
PeerSenderLock(c) ==
    /\ pc[c] = "ps_lock"
    /\ sendersLock = NoCaller
    /\ sendersLock' = c
    /\ pc' = [pc EXCEPT ![c] = "ps_body"]
    /\ UNCHANGED <<peerSenders, nextId, peerID, ctxLock, stream, invalid,
                   opens, peer, op, ms, err, result, calls, evicted, last,
                   found, lastEv, waitedOn, config,
                   tried, proto>>

\* What the lookup saw of the sender s it returned.
Seen(s) == [sender |-> s, kind |-> last[s], handle |-> stream[s]]

\* Variant: an entry exists, and a new sender is constructed and inserted
\* over it all the same.
PeerSenderFoundReplaces(c) ==
    /\ peerSenders[peer[c]] # NoSender
    /\ nextId \in Senders
    /\ peerID' = [peerID EXCEPT ![nextId] = peer[c]]
    /\ peerSenders' = [peerSenders EXCEPT ![peer[c]] = nextId]
    /\ nextId' = nextId + 1
    /\ ms' = [ms EXCEPT ![c] = nextId]
    /\ found' = [found EXCEPT ![c] = [sender |-> nextId, kind |-> "fresh",
                                      handle |-> NoStream]]

\* ms, ok := c.peerSenders[peerID]; if ok { return ms }
PeerSenderFound(c) ==
    /\ peerSenders[peer[c]] # NoSender
    /\ ms' = [ms EXCEPT ![c] = peerSenders[peer[c]]]
    /\ found' = [found EXCEPT ![c] = Seen(peerSenders[peer[c]])]
    /\ UNCHANGED <<peerSenders, nextId, peerID>>

\* ms = &peerMessageSender{...}; c.peerSenders[peerID] = ms; return ms
PeerSenderCreate(c) ==
    /\ peerSenders[peer[c]] = NoSender
    /\ nextId \in Senders
    /\ peerID' = [peerID EXCEPT ![nextId] = peer[c]]
    /\ peerSenders' = [peerSenders EXCEPT ![peer[c]] = nextId]
    /\ nextId' = nextId + 1
    /\ ms' = [ms EXCEPT ![c] = nextId]
    /\ found' = [found EXCEPT ![c] = [sender |-> nextId, kind |-> "fresh",
                                      handle |-> NoStream]]

\* Variant: the registry lock is not released when peerSender returns, so
\* the preparation runs under it.
PeerSenderBodyKeepsLock(c) ==
    /\ pc[c] = "ps_body"
    /\ sendersLock = c
    /\ PeerSenderFound(c) \/ PeerSenderCreate(c)
    /\ pc' = [pc EXCEPT ![c] = "ms_lock"]
    /\ UNCHANGED <<sendersLock, ctxLock, stream, invalid, opens, peer, op, err,
                   result, calls, evicted, last, lastEv, waitedOn, config,
                   tried, proto>>

\* The body of peerSender, with the deferred Unlock.
PeerSenderBody(c) ==
    /\ pc[c] = "ps_body"
    /\ sendersLock = c
    /\ PeerSenderFound(c) \/ PeerSenderCreate(c)
    /\ sendersLock' = NoCaller
    /\ pc' = [pc EXCEPT ![c] = "ms_lock"]
    /\ UNCHANGED <<ctxLock, stream, invalid, opens, peer, op, err, result,
                   calls, evicted, last, lastEv, waitedOn, config,
                   tried, proto>>

----------------------------------------------------------------------------
\* peerMessageSender.prepOrInvalidate

\* prepOrInvalidate fails with e: the client handles the failure next.
PrepFailed(c, e) ==
    /\ err' = [err EXCEPT ![c] = e]
    /\ pc' = [pc EXCEPT ![c] = "ev_lock"]

\* ctxLock.Lock(ctx) succeeds.
CtxLockAcquire(c) ==
    /\ pc[c] = "ms_lock"
    /\ ctxLock[ms[c]] = NoCaller
    /\ ctxLock' = [ctxLock EXCEPT ![ms[c]] = c]
    /\ pc' = [pc EXCEPT ![c] = "prep"]
    /\ UNCHANGED <<peerSenders, sendersLock, nextId, peerID, stream, invalid,
                   opens, peer, op, ms, err, result, calls, evicted, last,
                   found, lastEv, waitedOn, config,
                   tried, proto>>

\* ctxLock.Lock(ctx) fails: ctx is cancelled before the lock is obtained.
CtxLockCancel(c) ==
    /\ pc[c] = "ms_lock"
    /\ PrepFailed(c, ErrCancelled)
    /\ waitedOn' = [waitedOn EXCEPT ![c] = ctxLock[ms[c]]]
    /\ UNCHANGED <<peerSenders, sendersLock, nextId, peerID, ctxLock, stream,
                   invalid, opens, peer, op, ms, result, calls, evicted,
                   last, found, lastEv, config, tried, proto>>

\* The sender is marked invalid: handle absent, lock released.
Invalidate(c) ==
    /\ invalid' = [invalid EXCEPT ![ms[c]] = TRUE]
    /\ stream' = [stream EXCEPT ![ms[c]] = NoStream]
    /\ ctxLock' = [ctxLock EXCEPT ![ms[c]] = NoCaller]

\* The sender is invalid: no handle can be established on it.
PrepInvalid(c) ==
    /\ invalid[ms[c]]
    /\ Invalidate(c)
    /\ PrepFailed(c, ErrInvalidated)
    /\ UNCHANGED <<opens, tried, proto>>

\* A handle is present: success, the lock stays with the caller.
PrepReuse(c) ==
    /\ ~invalid[ms[c]]
    /\ stream[ms[c]] # NoStream
    /\ pc' = [pc EXCEPT ![c] = "write"]
    /\ UNCHANGED <<ctxLock, stream, invalid, opens, err, tried, proto>>

\* No handle: the host negotiates a stream for c.protocols, the peer accepts
\* one of them; the lock stays with the caller.
PrepOpenOk(c) ==
    /\ ~invalid[ms[c]]
    /\ stream[ms[c]] = NoStream
    /\ AcceptedAt(protocols, accepts[peer[c]]) # {}
    /\ tried' = [tried EXCEPT ![ms[c]] = Attempts(protocols, accepts[peer[c]])]
    /\ proto' = [proto EXCEPT ![ms[c]] = Negotiated(protocols, accepts[peer[c]])]
    /\ opens[ms[c]] + 1 \in Handles
    /\ stream' = [stream EXCEPT ![ms[c]] = opens[ms[c]] + 1]
    /\ opens' = [opens EXCEPT ![ms[c]] = @ + 1]
    /\ pc' = [pc EXCEPT ![c] = "write"]
    /\ UNCHANGED <<ctxLock, invalid, err>>

\* No handle and the host returns an error for every protocol (the peer
\* accepts none, or ctx is cancelled during the negotiation).
PrepOpenFail(c) ==
    /\ ~invalid[ms[c]]
    /\ stream[ms[c]] = NoStream
    /\ Invalidate(c)
    /\ PrepFailed(c, ErrNegotiation)
    /\ tried' = [tried EXCEPT ![ms[c]] = Attempts(protocols, accepts[peer[c]])]
    /\ UNCHANGED <<opens, proto>>

\* prepOrInvalidate after the lock is acquired.
Prep(c) ==
    /\ pc[c] = "prep"
    /\ \/ PrepInvalid(c)
       \/ PrepReuse(c)
       \/ PrepOpenOk(c)
       \/ PrepOpenFail(c)
    /\ UNCHANGED <<peerSenders, sendersLock, nextId, peerID, peer, op, ms,
                   result, calls, evicted, last, found, lastEv, waitedOn,
                   config>>

----------------------------------------------------------------------------
\* Client.messageSenderForPeer: handling of a failed prepOrInvalidate

\* c.sendersLock.Lock()
EvictLock(c) ==
    /\ pc[c] = "ev_lock"
    /\ sendersLock = NoCaller
    /\ sendersLock' = c
    /\ pc' = [pc EXCEPT ![c] = "ev_body"]
    /\ UNCHANGED <<peerSenders, nextId, peerID, ctxLock, stream, invalid,
                   opens, peer, op, ms, err, result, calls, evicted, last,
                   found, lastEv, waitedOn, config,
                   tried, proto>>

\* Variant: whatever is mapped is deleted, without comparing it with ms.
EvictChangedDeletes(c) ==
    /\ peerSenders[peer[c]] # NoSender
    /\ ms[c] # peerSenders[peer[c]]
    /\ peerSenders' = [peerSenders EXCEPT ![peer[c]] = NoSender]
    /\ evicted' = evicted \cup {peerSenders[peer[c]]}
    /\ lastEv' = [lastEv EXCEPT ![c] = "changed"]
    /\ Return(c, err[c])

\* msCur is present and ms != msCur: return msCur, nil. The caller goes on
\* to sender.sendRequest / sender.sendMessage on msCur.
EvictChanged(c) ==
    /\ peerSenders[peer[c]] # NoSender
    /\ ms[c] # peerSenders[peer[c]]
    /\ ms' = [ms EXCEPT ![c] = peerSenders[peer[c]]]
    /\ lastEv' = [lastEv EXCEPT ![c] = "changed"]
    /\ pc' = [pc EXCEPT ![c] = "write"]
    /\ UNCHANGED <<peerSenders, evicted, result, peer, op, err, found>>

\* Variant: the failed sender stays in the map.
EvictSameKeeps(c) ==
    /\ peerSenders[peer[c]] # NoSender
    /\ ms[c] = peerSenders[peer[c]]
    /\ lastEv' = [lastEv EXCEPT ![c] = "same"]
    /\ Return(c, err[c])
    /\ UNCHANGED <<peerSenders, evicted>>

\* Variant: the failed sender is deleted and no error is returned.
EvictSameNilErr(c) ==
    /\ peerSenders[peer[c]] # NoSender
    /\ ms[c] = peerSenders[peer[c]]
    /\ peerSenders' = [peerSenders EXCEPT ![peer[c]] = NoSender]
    /\ evicted' = evicted \cup {ms[c]}
    /\ lastEv' = [lastEv EXCEPT ![c] = "same"]
    /\ Return(c, NoErr)

\* msCur is present and ms == msCur: delete(c.peerSenders, peerID);
\* return nil, err.
EvictSame(c) ==
    /\ peerSenders[peer[c]] # NoSender
    /\ ms[c] = peerSenders[peer[c]]
    /\ peerSenders' = [peerSenders EXCEPT ![peer[c]] = NoSender]
    /\ evicted' = evicted \cup {ms[c]}
    /\ lastEv' = [lastEv EXCEPT ![c] = "same"]
    /\ Return(c, err[c])

\* Variant: no entry for the peer, and nil is returned.
EvictAbsentNilErr(c) ==
    /\ peerSenders[peer[c]] = NoSender
    /\ lastEv' = [lastEv EXCEPT ![c] = "absent"]
    /\ Return(c, NoErr)
    /\ UNCHANGED <<peerSenders, evicted>>

\* No entry for the peer: return nil, err.
EvictAbsent(c) ==
    /\ peerSenders[peer[c]] = NoSender
    /\ lastEv' = [lastEv EXCEPT ![c] = "absent"]
    /\ Return(c, err[c])
    /\ UNCHANGED <<peerSenders, evicted>>

\* Variant: the registry lock is not released when the failure branch
\* returns.
EvictBodyKeepsLock(c) ==
    /\ pc[c] = "ev_body"
    /\ sendersLock = c
    /\ \/ EvictChanged(c)
       \/ EvictSame(c)
       \/ EvictAbsent(c)
    /\ UNCHANGED <<sendersLock, nextId, peerID, ctxLock, stream, invalid,
                   opens, calls, last, waitedOn, config, tried, proto>>

\* The failure branch of messageSenderForPeer, with the deferred Unlock.
EvictBody(c) ==
    /\ pc[c] = "ev_body"
    /\ sendersLock = c
    /\ \/ EvictChanged(c)
       \/ EvictSame(c)
       \/ EvictAbsent(c)
    /\ sendersLock' = NoCaller
    /\ UNCHANGED <<nextId, peerID, ctxLock, stream, invalid, opens, calls,
                   last, waitedOn, config, tried, proto>>

----------------------------------------------------------------------------
\* peerMessageSender.sendRequest / sendMessage and the return of the call

\* release(): frees the lock if this caller holds it.
Release(c) ==
    ctxLock' = [ctxLock EXCEPT ![ms[c]] = IF @ = c THEN NoCaller ELSE @]

\* The sender's operation ends with e.
SenderEnds(c, e) ==
    last' = [last EXCEPT ![ms[c]] = IF e = NoErr THEN "none" ELSE e]

\* Variant: a send that failed also removes the peer's entry from the map.
SendReturnEvicts(c, e) ==
    /\ Return(c, e)
    /\ UNCHANGED lastEv
    /\ peerSenders' = IF e = NoErr THEN peerSenders
                      ELSE [peerSenders EXCEPT ![peer[c]] = NoSender]
    /\ evicted' = IF e = NoErr \/ peerSenders[peer[c]] = NoSender THEN evicted
                  ELSE evicted \cup {peerSenders[peer[c]]}

\* Variant: the error of the send is logged and not returned.
SendReturnNil(c, e) ==
    /\ Return(c, NoErr)
    /\ UNCHANGED <<peerSenders, evicted, lastEv>>

\* SendRequest / SendMessage return the error of sender.sendRequest /
\* sender.sendMessage as it is; the registry is not touched.
SendReturn(c, e) ==
    /\ Return(c, e)
    /\ UNCHANGED <<peerSenders, evicted, lastEv>>

\* The write fails (there may be no handle to write to): the stream is torn
\* down, the sender is invalid from now on.
WriteFail(c) ==
    /\ pc[c] = "write"
    /\ invalid' = [invalid EXCEPT ![ms[c]] = TRUE]
    /\ stream' = [stream EXCEPT ![ms[c]] = NoStream]
    /\ Release(c)
    /\ SenderEnds(c, ErrWrite)
    /\ SendReturn(c, ErrWrite)
    /\ UNCHANGED <<sendersLock, nextId, peerID, opens, calls, config, tried,
                   proto>>

\* The write completes: sendMessage is done, sendRequest goes on to read.
WriteOk(c) ==
    /\ pc[c] = "write"
    /\ stream[ms[c]] # NoStream
    /\ \/ /\ op[c] = "message"
          /\ Release(c)
          /\ SenderEnds(c, NoErr)
          /\ SendReturn(c, NoErr)
       \/ /\ op[c] = "request"
          /\ pc' = [pc EXCEPT ![c] = "read"]
          /\ UNCHANGED <<peerSenders, evicted, ctxLock, last, result, peer,
                         op, ms, err, found, lastEv>>
    /\ UNCHANGED <<sendersLock, nextId, peerID, stream, invalid, opens, calls,
                   waitedOn, config, tried, proto>>

\* No response within readMessageTimeout: ErrReadTimeout, stream torn down.
ReadTimeout(c) ==
    /\ pc[c] = "read"
    /\ invalid' = [invalid EXCEPT ![ms[c]] = TRUE]
    /\ stream' = [stream EXCEPT ![ms[c]] = NoStream]
    /\ Release(c)
    /\ SenderEnds(c, ErrReadTimeout)
    /\ SendReturn(c, ErrReadTimeout)
    /\ UNCHANGED <<sendersLock, nextId, peerID, opens, calls, config, tried,
                   proto>>

\* A response is read and decodeRsp accepts it.
ReadOk(c) ==
    /\ pc[c] = "read"
    /\ stream[ms[c]] # NoStream
    /\ Release(c)
    /\ SenderEnds(c, NoErr)
    /\ SendReturn(c, NoErr)
    /\ UNCHANGED <<sendersLock, nextId, peerID, stream, invalid, opens, calls,
                   config, tried, proto>>

\* A response is read and decodeRsp rejects it: the error is returned
\* verbatim, the stream is kept.
DecodeFail(c) ==
    /\ pc[c] = "read"
    /\ stream[ms[c]] # NoStream
    /\ Release(c)
    /\ SenderEnds(c, ErrDecode)
    /\ SendReturn(c, ErrDecode)
    /\ UNCHANGED <<sendersLock, nextId, peerID, stream, invalid, opens, calls,
                   config, tried, proto>>

----------------------------------------------------------------------------
Next ==
    \E c \in Callers :
        \/ \E p \in Peers : SendRequest(c, p)
        \/ \E p \in Peers : SendMessage(c, p)
        \/ PeerSenderLock(c)
        \/ PeerSenderBody(c)
        \/ CtxLockAcquire(c)
        \/ CtxLockCancel(c)
        \/ Prep(c)
        \/ EvictLock(c)
        \/ EvictBody(c)
        \/ WriteOk(c)
        \/ WriteFail(c)
        \/ ReadOk(c)
        \/ DecodeFail(c)
        \/ ReadTimeout(c)

Spec == Init /\ [][Next]_vars

\* The calls of one caller, one after the other.
NextSequential ==
    \E c \in {"c1"} :
        \/ \E p \in Peers : SendRequest(c, p)
        \/ \E p \in Peers : SendMessage(c, p)
        \/ PeerSenderLock(c)
        \/ PeerSenderBody(c)
        \/ CtxLockAcquire(c)
        \/ CtxLockCancel(c)
        \/ Prep(c)
        \/ EvictLock(c)
        \/ EvictBody(c)
        \/ WriteOk(c)
        \/ WriteFail(c)
        \/ ReadOk(c)
        \/ DecodeFail(c)
        \/ ReadTimeout(c)

\* Sequential calls on a client constructed in any way.
SpecNegotiation == InitNegotiation /\ [][NextSequential]_vars

\* A step of a call in progress that does not depend on its ctx being
\* cancelled: the locks are granted when free, every host operation
\* completes.
Progress ==
    \E c \in Callers :
        \/ PeerSenderLock(c)
        \/ PeerSenderBody(c)
        \/ CtxLockAcquire(c)
        \/ Prep(c)
        \/ EvictLock(c)
        \/ EvictBody(c)
        \/ WriteOk(c)
        \/ WriteFail(c)
        \/ ReadOk(c)
        \/ DecodeFail(c)
        \/ ReadTimeout(c)

\* Fair scheduling: a call in progress that can take a step is not left
\* waiting forever.
FairSpec == Spec /\ WF_vars(Progress)

----------------------------------------------------------------------------
\* Helpers of the properties.

Allocated == 1..(nextId - 1)

InSend(c) == pc[c] \in {"write", "read"}

\* The step is the return of c's call.
Returns(c) == pc[c] # "idle" /\ pc'[c] = "idle"

\* The step is c's run of the failure branch of messageSenderForPeer.
Handles_(c) == pc[c] = "ev_body" /\ pc'[c] # "ev_body"

----------------------------------------------------------------------------
\* C1: the failure handling of messageSenderForPeer removes only the exact
\* sender whose preparation just failed for the acting caller; any other
\* mapping of the registry stays in place, whatever the interleaving.
C1_Step ==
    \A p \in Peers :
        peerSenders[p] # NoSender /\ peerSenders'[p] # peerSenders[p]
        => /\ peerSenders'[p] = NoSender
           /\ \E c \in Callers :
                /\ Handles_(c)
                /\ peer[c] = p
                /\ ms[c] = peerSenders[p]
                /\ err[c] # NoErr

C1_EvictsOnlyFailedInstance == [][C1_Step]_vars

\* A caller whose preparation failed found another instance mapped, left it
\* in place, and the caller that prepared that instance is using it.
C1_Witness ==
    \E c, d \in Callers :
        /\ c # d
        /\ lastEv[c] = "changed"
        /\ found[c].sender \in evicted
        /\ peerSenders[peer[c]] = ms[d]
        /\ ms[d] # found[c].sender
        /\ InSend(d)
        /\ ctxLock[ms[d]] = d

----------------------------------------------------------------------------
\* C2: at any time at most one sender that has not been evicted exists for
\* a peer, and it is the one the registry maps the peer to; two lookups for
\* the same peer with no eviction between them return the same instance (a
\* lookup constructs a sender only when the peer has no entry).
C2_OneSenderPerPeer ==
    /\ \A s1, s2 \in Allocated \ evicted :
            peerID[s1] = peerID[s2] => s1 = s2
    /\ \A s \in Allocated \ evicted : peerSenders[peerID[s]] = s
    /\ \A p \in Peers :
            peerSenders[p] # NoSender =>
                peerSenders[p] \in Allocated \ evicted /\ peerID[peerSenders[p]] = p
    /\ \A c, d \in Callers :
            /\ found[c].sender # NoSender
            /\ found[d].sender # NoSender
            /\ peer[c] = peer[d]
            /\ found[c].sender # found[d].sender
            => found[c].sender \in evicted \/ found[d].sender \in evicted

\* Two callers looked up the same peer concurrently and hold the same
\* instance, constructed by one of the two lookups.
C2_Witness ==
    \E c, d \in Callers :
        /\ c # d
        /\ pc[c] = "ms_lock"
        /\ pc[d] = "ms_lock"
        /\ peer[c] = peer[d]
        /\ ms[c] = ms[d]
        /\ found[c].kind = "fresh"
        /\ found[d].kind # "fresh"
        /\ evicted = {}

----------------------------------------------------------------------------
\* C3: when the preparation failed and the registry still maps the peer to
\* the failed instance, the instance is removed and the preparation error is
\* returned; an evicted instance is never mapped again, and an instance
\* that enters the registry is newly constructed and Unprepared.
C3_EvictStep ==
    \A c \in Callers :
        Handles_(c) /\ peerSenders[peer[c]] = ms[c]
        => /\ peerSenders'[peer[c]] = NoSender
           /\ ms[c] \in evicted'
           /\ pc'[c] = "idle"
           /\ err[c] # NoErr
           /\ result'[c] = err[c]

C3_InsertStep ==
    \A p \in Peers :
        peerSenders'[p] # NoSender /\ peerSenders'[p] # peerSenders[p]
        => /\ peerSenders[p] = NoSender
           /\ peerSenders'[p] \notin Allocated
           /\ peerSenders'[p] \notin evicted'
           /\ stream'[peerSenders'[p]] = NoStream
           /\ opens'[peerSenders'[p]] = 0
           /\ ~invalid'[peerSenders'[p]]
           /\ ctxLock'[peerSenders'[p]] = NoCaller

C3_NotMapped == \A s \in evicted : peerSenders[peerID[s]] # s

C3_EvictedNeverReinserted ==
    /\ [][C3_EvictStep /\ C3_InsertStep]_vars
    /\ []C3_NotMapped

\* After an eviction a later lookup has inserted a fresh Unprepared sender.
C3_Witness ==
    \E s \in evicted :
        /\ peerSenders[peerID[s]] # NoSender
        /\ peerSenders[peerID[s]] # s
        /\ stream[peerSenders[peerID[s]]] = NoStream
        /\ ~invalid[peerSenders[peerID[s]]]

----------------------------------------------------------------------------
\* C4: after a sender reported a write failure or a read failure, the next
\* call for the same peer obtains a newly constructed, Unprepared sender:
\* no lookup returns an instance that reported such a failure.
C4_LookupStep ==
    \A c \in Callers :
        pc[c] = "ps_body" /\ pc'[c] = "ms_lock"
        => ms'[c] \notin ioFailed

C4_FreshSenderAfterIOFailure == [][C4_LookupStep]_vars

----------------------------------------------------------------------------
\* C5: two callers targeting the same peer are strictly serialized: no two
\* callers are inside the write/read section of the same sender's stream at
\* the same time.
C5_Serialized ==
    \A c, d \in Callers :
        c # d /\ InSend(c) /\ InSend(d) /\ stream[ms[c]] # NoStream
        => ms[c] # ms[d]

----------------------------------------------------------------------------
\* C6: a call is never blocked by a call for a different peer. The only
\* locks a caller ever waits for are the lock of its own peer's sender,
\* which only callers for that same peer hold, and the registry lock, whose
\* holder is inside peerSender or the failure branch and can always finish
\* and release it without waiting for a sender lock or for the network.
C6_NotBlockedByOtherPeer ==
    /\ \A s \in Senders :
            ctxLock[s] # NoCaller =>
                /\ s \in Allocated
                /\ pc[ctxLock[s]] \in {"prep", "write", "read"}
                /\ ms[ctxLock[s]] = s
                /\ peer[ctxLock[s]] = peerID[s]
    /\ \A c \in Callers :
            pc[c] = "ms_lock" => peerID[ms[c]] = peer[c]
    /\ sendersLock # NoCaller =>
            /\ pc[sendersLock] \in {"ps_body", "ev_body"}
            /\ ENABLED (PeerSenderBody(sendersLock) \/ EvictBody(sendersLock))
    /\ \A c \in Callers :
            /\ pc[c] \in {"ps_lock", "ev_lock"} /\ sendersLock = NoCaller
                    => ENABLED (PeerSenderLock(c) \/ EvictLock(c))
            /\ pc[c] = "ms_lock" /\ ctxLock[ms[c]] = NoCaller
                    => ENABLED CtxLockAcquire(c)
            /\ pc[c] = "prep" => ENABLED Prep(c)

\* A caller for A holds the lock of A's sender and is negotiating, and a
\* caller for B has created and prepared B's sender and is sending.
C6_Witness ==
    \E c, d \in Callers :
        /\ peer[c] = "A"
        /\ pc[c] = "prep"
        /\ ctxLock[ms[c]] = c
        /\ stream[ms[c]] = NoStream
        /\ peer[d] = "B"
        /\ found[d].kind = "fresh"
        /\ InSend(d)
        /\ ctxLock[ms[d]] = d
        /\ stream[ms[d]] # NoStream

----------------------------------------------------------------------------
\* C7: a caller whose context is cancelled while it waits for a sender lock
\* that another caller holds fails with the cancellation, and the holder is
\* unaffected: it keeps the lock, its stream handle is unchanged and its
\* own steps are what they would have been.

\* No step of the cancelled waiter touches a sender or another caller.
C7_HolderUntouched ==
    /\ UNCHANGED <<ctxLock, stream, invalid, opens>>
    /\ \A d \in Callers : pc'[d] # pc[d] => pc[d] \in {"ms_lock", "ev_lock", "ev_body"}

C7_CancelStep ==
    \A c \in Callers :
        pc[c] = "ms_lock" /\ pc'[c] = "ev_lock" /\ ctxLock[ms[c]] # NoCaller
        => /\ C7_HolderUntouched
           /\ err'[c] = ErrCancelled

\* A caller that prepared a sender itself holds its lock until its send ends.
C7_HolderKeepsLock ==
    \A d \in Callers :
        pc[d] \in {"prep", "write", "read"} /\ lastEv[d] = "none"
        => ctxLock[ms[d]] = d

\* The claim as stated: the waiting call always fails with the cancellation.
C7_WaiterFails ==
    \A c \in Callers :
        Handles_(c) /\ waitedOn[c] # NoCaller
        => /\ C7_HolderUntouched
           /\ pc'[c] = "idle"
           /\ result'[c] = ErrCancelled

C7_WaiterFailsUnlessReplaced ==
    \A c \in Callers :
        Handles_(c) /\ waitedOn[c] # NoCaller
        => /\ C7_HolderUntouched
           /\ IF peerSenders[peer[c]] \in {NoSender, ms[c]}
              THEN pc'[c] = "idle" /\ result'[c] = ErrCancelled
              ELSE /\ pc'[c] = "write"
                   /\ ms'[c] = peerSenders[peer[c]]
                   /\ peerSenders' = peerSenders

----------------------------------------------------------------------------
\* C8: a decode failure neither evicts the sender nor invalidates its
\* stream, and the SendRequest that follows it on the same peer finds the
\* same sender and, unless the sender was invalidated in between, uses the
\* same stream handle without negotiating.
C8_DecodeStep ==
    \A c \in Callers :
        pc[c] = "read" /\ Returns(c) /\ last'[ms[c]] = ErrDecode
        => /\ result'[c] = ErrDecode
           /\ UNCHANGED <<peerSenders, evicted, stream, invalid, opens>>
           /\ stream[ms[c]] # NoStream

C8_ReuseStep ==
    \A c \in Callers :
        /\ pc[c] = "prep"
        /\ pc'[c] # "prep"
        /\ found[c].kind = ErrDecode
        /\ ~invalid[ms[c]]
        => /\ pc'[c] = "write"
           /\ ms'[c] = found[c].sender
           /\ stream'[ms[c]] = found[c].handle
           /\ found[c].handle # NoStream
           /\ UNCHANGED <<opens, peerSenders>>

C8_DecodeFailureKeepsStream == [][C8_DecodeStep /\ C8_ReuseStep]_vars

\* A request follows a decode failure: it is sending on the same sender and
\* the same stream handle, which was opened once.
C8_Witness ==
    \E c \in Callers :
        /\ op[c] = "request"
        /\ pc[c] = "write"
        /\ found[c].kind = ErrDecode
        /\ ms[c] = found[c].sender
        /\ peerSenders[peer[c]] = ms[c]
        /\ stream[ms[c]] = found[c].handle
        /\ opens[ms[c]] = 1
        /\ ctxLock[ms[c]] = c

----------------------------------------------------------------------------
\* C9: every failure of a step of a call is returned as an error to the
\* caller of that call: no call returns success after one of its own steps
\* failed.

\* The error the sender's operation ended with is the error the call returns.
C9_SendErrorReturned ==
    \A c \in Callers :
        InSend(c) /\ Returns(c)
        => result'[c] = (IF last'[ms[c]] = "none" THEN NoErr ELSE last'[ms[c]])

\* A preparation failure handled without a replacement is returned.
C9_PrepErrorReturned ==
    \A c \in Callers :
        Handles_(c) /\ Returns(c) => err[c] # NoErr /\ result'[c] = err[c]

\* The claim as stated: success is returned only when no step failed.
C9_NoSuccessAfterFailure ==
    \A c \in Callers :
        Returns(c) /\ result'[c] = NoErr => err[c] = NoErr

C9_PrepErrorDroppedOnlyOnChange ==
    \A c \in Callers :
        /\ Returns(c) /\ result'[c] = NoErr
                => err[c] = NoErr \/ lastEv[c] = "changed"
        /\ Handles_(c) /\ ~Returns(c)
                => /\ peerSenders[peer[c]] \notin {NoSender, ms[c]}
                   /\ lastEv'[c] = "changed"
                   /\ pc'[c] = "write"
        /\ Handles_(c) /\ peerSenders[peer[c]] \in {NoSender, ms[c]}
                => Returns(c)

----------------------------------------------------------------------------
\* C10: when the peer never responds, SendRequest fails with ErrReadTimeout
\* and the stream is discarded, and the next call to that peer negotiates a
\* new stream instead of reusing the old handle.
C10_TimeoutStep ==
    \A c \in Callers :
        pc[c] = "read" /\ Returns(c) /\ last'[ms[c]] = ErrReadTimeout
        => /\ result'[c] = ErrReadTimeout
           /\ stream'[ms[c]] = NoStream

\* The call that finds the sender as the timeout left it negotiates: the
\* host opens a new stream for it or reports a negotiation failure.
C10_NextCallNegotiates ==
    \A c \in Callers :
        /\ pc[c] = "prep"
        /\ pc'[c] # "prep"
        /\ found[c].kind = ErrReadTimeout
        => \/ /\ pc'[c] = "write"
              /\ opens'[ms'[c]] = opens[ms'[c]] + 1
              /\ stream'[ms'[c]] # found[c].handle
           \/ err'[c] = ErrNegotiation

C10_TimeoutDiscardsStream == [][C10_TimeoutStep /\ C10_NextCallNegotiates]_vars

----------------------------------------------------------------------------
\* C11: a client configured with an ordered protocol preference list has its
\* protocols tried in that order when a stream is opened, and the first one
\* the peer accepts is used: with the list <<v2, v1>> and a peer accepting
\* only v1, v2 is attempted, then v1, and the preparation can succeed, with
\* v1.

\* The preference list the client was configured with.
Preference == IF options # <<>> THEN options ELSE protocols

\* c is about to have the host open a stream for its sender.
Opening(c) ==
    pc[c] = "prep" /\ ~invalid[ms[c]] /\ stream[ms[c]] = NoStream

C11_OpenStep ==
    \A c \in Callers :
        Opening(c) /\ pc'[c] # "prep"
            => /\ tried'[ms[c]] = Attempts(Preference, accepts[peer[c]])
               /\ stream'[ms[c]] # NoStream
                    => proto'[ms[c]] = Negotiated(Preference, accepts[peer[c]])

C11_CanSucceed ==
    \A c \in Callers :
        Opening(c) /\ AcceptedAt(Preference, accepts[peer[c]]) # {}
            => ENABLED (Prep(c) /\ stream'[ms[c]] # NoStream)

C11_PreferenceOrder == [][C11_OpenStep]_vars /\ []C11_CanSucceed

----------------------------------------------------------------------------
\* C12: a caller that reads or writes a sender's stream handle (prepare,
\* write, read, invalidate) holds that sender's lock; this covers the sender
\* messageSenderForPeer returns from its 'registry entry changed' branch.
C12_HandleUnderLock ==
    \A c \in Callers :
        pc[c] \in {"prep", "write", "read"} => ctxLock[ms[c]] = c

----------------------------------------------------------------------------
\* C13: messageSenderForPeer returns a sender without an error only when a
\* usable stream handle is established on it: no send is started on a sender
\* that is Unprepared or Invalid.
C13_SendStarts ==
    \A c \in Callers :
        pc[c] # "write" /\ pc'[c] = "write"
            => stream'[ms'[c]] # NoStream /\ ~invalid'[ms'[c]]

C13_SendOnlyOnReady == [][C13_SendStarts]_vars

----------------------------------------------------------------------------
\* C14: an evicted sender is abandoned: no caller prepares it or sends on it
\* after its eviction, callers that obtained it before the eviction included.
C14_UseStep ==
    \A c \in Callers :
        pc[c] \in {"prep", "write", "read"} /\ pc'[c] # pc[c]
            => ms[c] \notin evicted

C14_EvictedAbandoned == [][C14_UseStep]_vars

----------------------------------------------------------------------------
\* C15: the registry lock is held only during the lookup, insertion or
\* deletion in the map: no caller holds it while it waits for a sender lock,
\* negotiates, writes or reads.
C15_RegistryLockOnlyForMap ==
    \A c \in Callers :
        /\ sendersLock = c => pc[c] \in {"ps_body", "ev_body"}
        /\ pc[c] \in {"ms_lock", "prep", "write", "read"} => sendersLock # c

\* A caller is inside the failure branch, holding the registry lock, while
\* the other caller is negotiating, writing or reading.
C15_Witness ==
    \E c, d \in Callers :
        /\ c # d
        /\ sendersLock = c
        /\ pc[c] = "ev_body"
        /\ pc[d] \in {"prep", "write", "read"}
        /\ ctxLock[ms[d]] = d

----------------------------------------------------------------------------
\* C16: when the preparation fails and the registry maps the peer to another
\* instance, messageSenderForPeer drops the preparation error and returns
\* the instance now in the registry with no error; the registry is unchanged.
C16_ChangedStep ==
    \A c \in Callers :
        Handles_(c) /\ peerSenders[peer[c]] \notin {NoSender, ms[c]}
            => /\ ms'[c] = peerSenders[peer[c]]
               /\ pc'[c] = "write"
               /\ result'[c] = "none"
               /\ peerSenders' = peerSenders
               /\ evicted' = evicted
               /\ nextId' = nextId

C16_ChangedReturnsRegistryEntry == [][C16_ChangedStep]_vars

\* A caller whose preparation failed with an error is sending on the
\* instance the registry maps, which is not the one peerSender gave it.
C16_Witness ==
    \E c \in Callers :
        /\ lastEv[c] = "changed"
        /\ err[c] # NoErr
        /\ InSend(c)
        /\ ms[c] = peerSenders[peer[c]]
        /\ ms[c] # found[c].sender

----------------------------------------------------------------------------
\* C17: when the preparation fails and the registry has no entry for the
\* peer, messageSenderForPeer returns the preparation error and leaves the
\* whole registry unchanged.
C17_AbsentStep ==
    \A c \in Callers :
        Handles_(c) /\ peerSenders[peer[c]] = NoSender
            => /\ Returns(c)
               /\ err[c] # NoErr
               /\ result'[c] = err[c]
               /\ peerSenders' = peerSenders
               /\ evicted' = evicted
               /\ nextId' = nextId

C17_AbsentReturnsError == [][C17_AbsentStep]_vars

\* A call has returned its preparation error through the 'no entry' branch,
\* and the registry has no entry for either peer.
C17_Witness ==
    \E c \in Callers :
        /\ pc[c] = "idle"
        /\ lastEv[c] = "absent"
        /\ result[c] \in {ErrCancelled, ErrNegotiation, ErrInvalidated}
        /\ evicted # {}
        /\ \A p \in Peers : peerSenders[p] = NoSender

----------------------------------------------------------------------------
\* C18: when a SendRequest / SendMessage call has returned, with success or
\* with any error, its caller holds neither the registry lock nor the lock
\* of any sender.
C18_NoLockAfterReturn ==
    \A c \in Callers :
        pc[c] = "idle"
            => /\ sendersLock # c
               /\ \A s \in Senders : ctxLock[s] # c

\* One caller has returned success and the other an error, after the
\* failure branch ran in one of the calls.
C18_Witness ==
    \E c, d \in Callers :
        /\ pc[c] = "idle" /\ result[c] = NoErr
        /\ pc[d] = "idle" /\ result[d] \notin {NoErr, "none"}
        /\ lastEv[d] # "none"

----------------------------------------------------------------------------
\* C19: a sender is removed from the registry only when it has no usable
\* stream handle: a Ready sender in use by its lock holder is not evicted
\* because the preparation of another caller failed on it (for instance by
\* the cancellation of that caller's lock wait).
C19_EvictStep ==
    \A p \in Peers :
        peerSenders[p] # NoSender /\ peerSenders'[p] = NoSender
            => stream[peerSenders[p]] = NoStream

C19_ReadyNeverEvicted == [][C19_EvictStep]_vars

----------------------------------------------------------------------------
\* C20: the client never deadlocks. When every host operation completes and
\* the scheduling is fair, some call in progress can always take a step
\* without being cancelled, every SendRequest / SendMessage call returns, and
\* a caller waiting for a sender lock acquires it or is cancelled.
C20_NoDeadlock ==
    (\E c \in Callers : pc[c] # "idle") => ENABLED Progress

C20_CallReturns ==
    \A c \in Callers : (pc[c] # "idle") ~> (pc[c] = "idle")

C20_LockWaitEnds ==
    \A c \in Callers : (pc[c] = "ms_lock") ~> (pc[c] \in {"prep", "ev_lock"})

C20_EveryCallReturns == []C20_NoDeadlock /\ C20_CallReturns /\ C20_LockWaitEnds

\* Every call of the behaviour has returned, both callers have made calls,
\* a stream was opened and every lock is free.
C20_Witness ==
    /\ calls = MaxCalls
    /\ \A c \in Callers : pc[c] = "idle" /\ result[c] # "none"
    /\ \E s \in Senders : opens[s] > 0
    /\ sendersLock = NoCaller
    /\ \A s \in Senders : ctxLock[s] = NoCaller

TypeOK ==
    /\ peerSenders \in [Peers -> Senders \cup {NoSender}]
    /\ sendersLock \in Callers \cup {NoCaller}
    /\ nextId \in 1..(MaxCalls + 1)
    /\ ctxLock \in [Senders -> Callers \cup {NoCaller}]
    /\ stream \in [Senders -> Handles \cup {NoStream}]
    /\ invalid \in [Senders -> BOOLEAN]
    /\ protocols \in Seq(ProtocolIDs) /\ Len(protocols) = 1
    /\ options \in PreferenceLists
    /\ proto \in [Senders -> ProtocolIDs \cup {NoProtocol}]
    /\ \A c \in Callers : pc[c] # "idle" /\ pc[c] # "ps_lock" /\ pc[c] # "ps_body"
                             => ms[c] \in Senders

====
